---- MODULE Spec2Model ----
(***************************************************************************)
(* A model of gptme/tools/tts.py: the text segmenter and chunk joiner, the *)
(* two queues (request queue, audio queue) with Python's queue.Queue       *)
(* accounting, the synthesis worker and the playback worker threads, and   *)
(* the caller-facing operations speak, stop, set_volume and set_speed.     *)
(*                                                                         *)
(* Text is a sequence of one-character strings.  Numbers that the code     *)
(* keeps as floats (volume, speed) are kept in hundredths.                 *)
(***************************************************************************)
EXTENDS Integers, Sequences, FiniteSets, TLC

\* ------------------------------------------------------------------------
\* Python string helpers (str.strip, str.lstrip, str.split, str.replace)
\* ------------------------------------------------------------------------

IsSpace(ch) == ch \in {" ", "\n"}

IsDigit(ch) == ch \in {"1", "2"}

RECURSIVE LStrip(_)
LStrip(s) ==
    IF s = <<>> THEN <<>>
    ELSE IF IsSpace(Head(s)) THEN LStrip(Tail(s)) ELSE s

RECURSIVE RStrip(_)
RStrip(s) ==
    IF s = <<>> THEN <<>>
    ELSE IF IsSpace(s[Len(s)]) THEN RStrip(SubSeq(s, 1, Len(s) - 1)) ELSE s

Strip(s) == RStrip(LStrip(s))

\* str.rstrip("."): drop every trailing period
RECURSIVE RStripDot(_)
RStripDot(s) ==
    IF s = <<>> THEN <<>>
    ELSE IF s[Len(s)] = "." THEN RStripDot(SubSeq(s, 1, Len(s) - 1)) ELSE s

StartsWith(s, p) == Len(s) >= Len(p) /\ SubSeq(s, 1, Len(p)) = p

\* str.split(sep): the pieces between the non-overlapping occurrences of sep,
\* found left to right; always at least one piece
RECURSIVE SplitAcc(_, _, _)
SplitAcc(s, sep, cur) ==
    IF s = <<>> THEN <<cur>>
    ELSE IF StartsWith(s, sep)
         THEN <<cur>> \o SplitAcc(SubSeq(s, Len(sep) + 1, Len(s)), sep, <<>>)
         ELSE SplitAcc(Tail(s), sep, Append(cur, Head(s)))

Split(s, sep) == SplitAcc(s, sep, <<>>)

\* str.replace(old, new): every non-overlapping occurrence, left to right
RECURSIVE Replace(_, _, _)
Replace(s, old, new) ==
    IF s = <<>> THEN <<>>
    ELSE IF StartsWith(s, old)
         THEN new \o Replace(SubSeq(s, Len(old) + 1, Len(s)), old, new)
         ELSE <<Head(s)>> \o Replace(Tail(s), old, new)

\* the list of the elements of seq that satisfy Keep
RECURSIVE SelectNonBlank(_)
SelectNonBlank(seq) ==
    IF seq = <<>> THEN <<>>
    ELSE IF Strip(Head(seq)) # <<>>
         THEN <<Head(seq)>> \o SelectNonBlank(Tail(seq))
         ELSE SelectNonBlank(Tail(seq))

RECURSIVE MapStrip(_)
MapStrip(seq) ==
    IF seq = <<>> THEN <<>> ELSE <<Strip(Head(seq))>> \o MapStrip(Tail(seq))

\* ------------------------------------------------------------------------
\* join_short_sentences
\* ------------------------------------------------------------------------

\* Python's None; a value that may be None is <<>> or the one-element <<v>>
None == <<>>
Some(v) == <<v>>

min_length_default == 100
max_length_default == 300

\* the limit the loop compares len(combined) against
JoinLimit(min_length, max_length) ==
    IF max_length # None THEN max_length[1] ELSE min_length

\* combined = f"{current} {sentence.lstrip()}"
Combined(current, sentence) == current \o <<" ">> \o LStrip(sentence)

\* (mutant) the comparison with < in place of <=
FitsStrictly(combined, limit) == Len(combined) < limit

\* len(combined) <= max_length, or <= min_length when max_length is None
Fits(combined, limit) == Len(combined) <= limit

\* (mutant) the loop without its test for a paragraph break
IsBreakNever(sentence) == FALSE

\* `if not sentence.strip()`: the sentence is a paragraph break
IsBreak(sentence) == Strip(sentence) = <<>>

\* the body of the for loop, on the state (result, current)
RECURSIVE JoinLoop(_, _, _, _)
JoinLoop(sentences, result, current, limit) ==
    IF sentences = <<>>
    THEN IF current # <<>> THEN Append(result, current) ELSE result
    ELSE LET sentence == Head(sentences)
             rest == Tail(sentences)
         IN  IF IsBreak(sentence)
             THEN JoinLoop(rest,
                           Append(IF current # <<>> THEN Append(result, current)
                                                    ELSE result,
                                  sentence),
                           <<>>, limit)
             ELSE IF current = <<>>
             THEN JoinLoop(rest, result, sentence, limit)
             ELSE IF Fits(Combined(current, sentence), limit)
             THEN JoinLoop(rest, result, Combined(current, sentence), limit)
             ELSE JoinLoop(rest, Append(result, current), sentence, limit)

join_short_sentences(sentences, min_length, max_length) ==
    JoinLoop(sentences, <<>>, <<>>, JoinLimit(min_length, max_length))

\* ------------------------------------------------------------------------
\* split_text
\* ------------------------------------------------------------------------

\* list_pattern = ^(?:\d+\.|-|\*)\s+  applied with match() to text.strip()
RECURSIVE SkipDigits(_)
SkipDigits(s) ==
    IF s # <<>> /\ IsDigit(Head(s)) THEN SkipDigits(Tail(s)) ELSE s

is_list_item(text) ==
    LET t == Strip(text)
        afterDigits == SkipDigits(t)
    IN  \/ /\ Len(t) >= 2
           /\ t[1] \in {"-", "*"}
           /\ IsSpace(t[2])
        \/ /\ t # <<>>
           /\ IsDigit(t[1])
           /\ Len(afterDigits) >= 2
           /\ afterDigits[1] = "."
           /\ IsSpace(afterDigits[2])

\* text.replace("*", "-", 1) on the stripped text when it starts with "*"
convert_list_item(text) ==
    LET t == Strip(text)
    IN  IF t # <<>> /\ t[1] = "*" THEN <<"-">> \o Tail(t) ELSE t

\* decimal_pattern = \d+\.\d+  applied with match(): at the start of the line
decimal_match(line) ==
    LET afterDigits == SkipDigits(line)
    IN  /\ line # <<>>
        /\ IsDigit(line[1])
        /\ Len(afterDigits) >= 2
        /\ afterDigits[1] = "."
        /\ IsDigit(afterDigits[2])

\* re.sub(r"(\d+)\.(\d+)", r"\1@\2", text): leftmost non-overlapping matches;
\* prevDigit says whether the character before s is a digit no earlier
\* match has consumed
RECURSIVE ProtectAcc(_, _)
ProtectAcc(s, prevDigit) ==
    IF s = <<>> THEN <<>>
    ELSE IF Head(s) = "." /\ prevDigit /\ Len(s) >= 2 /\ IsDigit(s[2])
         THEN LET rest == SkipDigits(Tail(s))
                  run == SubSeq(s, 2, Len(s) - Len(rest))
              IN  <<"@">> \o run \o ProtectAcc(rest, FALSE)
         ELSE <<Head(s)>> \o ProtectAcc(Tail(s), IsDigit(Head(s)))

protect_decimals(text) == ProtectAcc(text, FALSE)

restore_decimals(text) == Replace(text, <<"@">>, <<".">>)

IsSentenceEnd(ch) == ch \in {".", "!", "?"}

\* sentence_end = ([.!?])(?:\s+|$) ; sentence_end.split(s): the text before
\* each match and the captured punctuation alternate, the text after the last
\* match comes last
RECURSIVE SentenceSplitAcc(_, _)
SentenceSplitAcc(s, cur) ==
    IF s = <<>> THEN <<cur>>
    ELSE IF IsSentenceEnd(Head(s)) /\ (Len(s) = 1 \/ IsSpace(s[2]))
         THEN <<cur, <<Head(s)>>>> \o SentenceSplitAcc(LStrip(Tail(s)), <<>>)
         ELSE SentenceSplitAcc(Tail(s), Append(cur, Head(s)))

sentence_end_split(s) == SentenceSplitAcc(s, <<>>)

\* the while loop of split_sentences over parts, from index i
RECURSIVE SentencesFrom(_, _)
SentencesFrom(parts, i) ==
    IF i > Len(parts) THEN <<>>
    ELSE LET part == Strip(parts[i])
         IN  IF part = <<>> THEN SentencesFrom(parts, i + 1)
             ELSE IF i + 1 <= Len(parts)
                  THEN <<restore_decimals(part) \o parts[i + 1]>>
                           \o SentencesFrom(parts, i + 2)
                  ELSE <<restore_decimals(part)>> \o SentencesFrom(parts, i + 1)

split_sentences(text) ==
    SelectNonBlank(SentencesFrom(sentence_end_split(protect_decimals(text)), 1))

EndsWithDot(s) == s # <<>> /\ s[Len(s)] = "."

\* all(line.strip().endswith(".") for line in lines if line.strip())
all_items_have_periods(lines) ==
    \A i \in 1..Len(lines) :
        Strip(lines[i]) # <<>> => EndsWithDot(Strip(lines[i]))

\* the chunks one line of a paragraph contributes
LineChunks(rawLine, lines) ==
    LET line == Strip(rawLine)
    IN  IF line = <<>> THEN <<>>
        ELSE IF is_list_item(line)
        THEN <<convert_list_item(IF all_items_have_periods(lines)
                                 THEN RStripDot(line) ELSE line)>>
        ELSE IF decimal_match(line) THEN <<line>>
        ELSE split_sentences(line)

RECURSIVE ParagraphChunks(_, _)
ParagraphChunks(todo, lines) ==
    IF todo = <<>> THEN <<>>
    ELSE LineChunks(Head(todo), lines) \o ParagraphChunks(Tail(todo), lines)

\* `if paragraph != paragraphs[-1]`: a comparison of the paragraphs' text
IsLastParagraph(paragraph, paragraphs) == paragraph = paragraphs[Len(paragraphs)]

RECURSIVE ParagraphsLoop(_, _)
ParagraphsLoop(todo, paragraphs) ==
    IF todo = <<>> THEN <<>>
    ELSE LET paragraph == Head(todo)
             lines == Split(paragraph, <<"\n">>)
         IN  ParagraphChunks(lines, lines)
                \o (IF ~IsLastParagraph(paragraph, paragraphs)
                    THEN << <<>> >> ELSE <<>>)
                \o ParagraphsLoop(Tail(todo), paragraphs)

\* `while result and not result[-1]: result.pop()`
RECURSIVE PopTrailingEmpty(_)
PopTrailingEmpty(result) ==
    IF result # <<>> /\ result[Len(result)] = <<>>
    THEN PopTrailingEmpty(SubSeq(result, 1, Len(result) - 1))
    ELSE result

split_text(text) ==
    LET paragraphs == MapStrip(SelectNonBlank(Split(text, <<"\n", "\n">>)))
    IN  PopTrailingEmpty(ParagraphsLoop(paragraphs, paragraphs))

\* ------------------------------------------------------------------------
\* clean_for_speech
\* ------------------------------------------------------------------------

\* re.sub(r"\(.*?\)", "", content): "." does not match a newline, so a
\* parenthesis is removed with the nearest ")" on the same line
RECURSIVE CloseParenAt(_, _)
CloseParenAt(s, i) ==
    IF i > Len(s) \/ s[i] = "\n" THEN 0
    ELSE IF s[i] = ")" THEN i ELSE CloseParenAt(s, i + 1)

RECURSIVE RemoveParens(_)
RemoveParens(s) ==
    IF s = <<>> THEN <<>>
    ELSE IF Head(s) = "(" /\ CloseParenAt(s, 2) > 0
         THEN RemoveParens(SubSeq(s, CloseParenAt(s, 2) + 1, Len(s)))
         ELSE <<Head(s)>> \o RemoveParens(Tail(s))

\* The thinking, code-fence, header, emphasis and emoji patterns need one of
\* the characters < ` # * or an emoji, none of which occurs in the texts of
\* this model, so they leave the content as it is; the parenthesis pattern
\* and the final strip() act as in the code.
clean_for_speech(content) == Strip(RemoveParens(content))

\* ------------------------------------------------------------------------
\* speak: from text to the chunks it puts on the request queue
\* ------------------------------------------------------------------------

gptme == <<"g", "p", "t", "m", "e">>
gpt_me == <<"g", "p", "t", "-", "m", "e">>

RECURSIVE FixPronunciation(_)
FixPronunciation(chunks) ==
    IF chunks = <<>> THEN <<>>
    ELSE <<Replace(Head(chunks), gptme, gpt_me)>> \o FixPronunciation(Tail(chunks))

\* chunks = join_short_sentences(split_text(text)), then the replace
SpeakChunks(text) ==
    FixPronunciation(
        join_short_sentences(split_text(text), min_length_default,
                             Some(max_length_default)))

\* (mutant) the loop of speak without its filter
ShouldEnqueueAll(chunk) == TRUE

\* `if chunk.strip()`
ShouldEnqueue(chunk) == Strip(chunk) # <<>>

\* ------------------------------------------------------------------------
\* Bounds of the model
\* ------------------------------------------------------------------------

\* calls (speak, stop, set_volume, set_speed) issued in all, by one caller
\* thread and by caller threads that call concurrently
MaxCalls == 3
MaxConcurrentCalls == 2

\* chunks put on the request queue in all
MaxChunks == 2

\* the caller threads
Callers == {"c1", "c2"}

\* the texts given to speak: one chunk; two paragraphs, so a paragraph-break
\* sentinel between two chunks; nothing to say
Texts ==
    { <<"a", ".", " ", "(", "b", ")">>,
      <<"a", ".", " ", "b", "!", "\n", "\n", "g", "p", "t", "m", "e">>,
      <<" ", "\n">> }

\* floats in hundredths; NaN compares false with everything
Float(v) == [nan |-> FALSE, v |-> v]
NaN == [nan |-> TRUE, v |-> 0]
Lt(a, b) == ~a.nan /\ ~b.nan /\ a.v < b.v

\* the arguments given to set_volume and to set_speed
VolumeInputs == {Float(0 - 50), Float(30), Float(500), NaN}
SpeedInputs == {Float(10), Float(130), Float(300), NaN}

\* ------------------------------------------------------------------------
\* State
\* ------------------------------------------------------------------------

VARIABLES
    has_imports,            \* the numpy/scipy/sounddevice imports succeeded
    device_sr,              \* sounddevice: default sample rate of the device
                            \* that get_output_device() selects now
    current_volume,         \* module globals
    current_speed,
    tts_request_queue,      \* queue.Queue: [queue, unfinished_tasks]
    audio_queue,
    playback_thread,        \* None or <<index into players>>
    tts_processor_thread,   \* None or <<index into processors>>
    players,                \* the playback threads ever created
    processors,             \* the synthesis threads ever created
    sd_stream,              \* sounddevice: id of the buffer playing, 0 if none
    callers,                \* per caller thread: where it is in speak/stop
    calls,                  \* calls issued so far
    fate,                   \* history: what became of each enqueued chunk
    played,                 \* history: ids of the buffers players dequeued
    fn                      \* input and result of a pure function under test

vars == <<has_imports, device_sr, current_volume, current_speed, tts_request_queue,
          audio_queue, playback_thread, tts_processor_thread, players,
          processors, sd_stream, callers, calls, fate, played, fn>>

pipeline == <<tts_request_queue, audio_queue, playback_thread,
              tts_processor_thread, players, processors, sd_stream, fate,
              played>>

\* ------------------------------------------------------------------------
\* queue.Queue
\* ------------------------------------------------------------------------

EmptyQueue == [queue |-> <<>>, unfinished_tasks |-> 0]

\* Queue.put
QueuePut(q, item) ==
    [queue |-> Append(q.queue, item), unfinished_tasks |-> q.unfinished_tasks + 1]

\* Queue.get on a non-empty queue: the queue without its head
QueueGet(q) == [q EXCEPT !.queue = Tail(@)]

\* Queue.task_done raises ValueError when unfinished_tasks would go below 0
TaskDoneRaises(q) == q.unfinished_tasks = 0
QueueTaskDone(q) == [q EXCEPT !.unfinished_tasks = @ - 1]

\* Queue.join returns once unfinished_tasks is 0
JoinReturns(q) == q.unfinished_tasks = 0

\* the stop sentinel put on the request queue (None); a chunk has id >= 1
StopSentinel == [id |-> 0, text |-> <<>>]

\* threading.Thread.is_alive
IsAlive(threads, handle) ==
    handle # None /\ threads[handle[1]].pc \notin {"unstarted", "dead"}

SetFate(ids, what) == [i \in DOMAIN fate |-> IF i \in ids THEN what ELSE fate[i]]

QueuedIds(q) == {q.queue[i].id : i \in DOMAIN q.queue} \ {0}

\* ------------------------------------------------------------------------
\* set_speed, set_volume
\* ------------------------------------------------------------------------

\* Python's min(a, b) and max(a, b): a unless b is smaller (greater)
PyMin(a, b) == IF Lt(b, a) THEN b ELSE a
PyMax(a, b) == IF Lt(a, b) THEN b ELSE a

\* max(0.5, min(2.0, speed))
ClampSpeed(speed) == PyMax(Float(50), PyMin(Float(200), speed))

\* (mutant) the clamp with min and max applied in the other order
ClampVolumeMaxFirst(volume) == PyMin(PyMax(volume, Float(0)), Float(100))

\* max(0.0, min(1.0, volume))
ClampVolume(volume) == PyMax(Float(0), PyMin(Float(100), volume))

CanCall(c) ==
    /\ callers[c].pc = "idle"
    /\ calls < (IF \E d \in Callers : callers[d].pc = "off"
                THEN MaxCalls ELSE MaxConcurrentCalls)

set_speed(c, speed) ==
    /\ CanCall(c)
    /\ current_speed' = ClampSpeed(speed)
    /\ calls' = calls + 1
    /\ UNCHANGED <<has_imports, device_sr, current_volume, pipeline, callers, fn>>

set_volume(c, volume) ==
    /\ CanCall(c)
    /\ current_volume' = ClampVolume(volume)
    /\ calls' = calls + 1
    /\ UNCHANGED <<has_imports, device_sr, current_speed, pipeline, callers, fn>>

\* ------------------------------------------------------------------------
\* stop, clear_queue
\* ------------------------------------------------------------------------

Idle == [pc |-> "idle", in_speak |-> FALSE, block |-> FALSE, chunks |-> <<>>,
         own |-> {}]

Goto(c, pc) == [callers EXCEPT ![c].pc = pc]

\* a caller thread calls stop()
stop(c) ==
    /\ CanCall(c)
    /\ callers' = [callers EXCEPT ![c] = [Idle EXCEPT !.pc = "stop_sd"]]
    /\ calls' = calls + 1
    /\ UNCHANGED <<has_imports, device_sr, current_volume, current_speed, pipeline, fn>>

\* sd.stop(): the stream that is playing, if any, is stopped
StopSd(c) ==
    /\ callers[c].pc = "stop_sd"
    /\ has_imports
    /\ sd_stream' = 0
    /\ callers' = Goto(c, "stop_clear_audio")
    /\ UNCHANGED <<has_imports, device_sr, current_volume, current_speed, tts_request_queue,
                   audio_queue, playback_thread, tts_processor_thread, players,
                   processors, calls, fate, played, fn>>

\* sd.stop() when the import of sounddevice failed: the name sd is undefined
\* and the NameError leaves stop(), and speak() when stop() was called by it
StopSdRaises(c) ==
    /\ callers[c].pc = "stop_sd"
    /\ ~has_imports
    /\ callers' = Goto(c, IF callers[c].in_speak THEN "speak_raised"
                                                ELSE "stop_raised")
    /\ UNCHANGED <<has_imports, device_sr, current_volume, current_speed, pipeline, calls, fn>>

\* clear_queue(): one round of  while not empty(): get_nowait(); task_done()
clear_queue(c) ==
    /\ callers[c].pc = "stop_clear_audio"
    /\ IF audio_queue.queue = <<>>
       THEN /\ callers' = Goto(c, "stop_clear_requests")
            /\ UNCHANGED <<audio_queue, fate>>
       ELSE IF TaskDoneRaises(audio_queue)
       THEN /\ audio_queue' = QueueGet(audio_queue)
            /\ callers' = Goto(c, IF callers[c].in_speak THEN "speak_raised"
                                                        ELSE "stop_raised")
            /\ UNCHANGED fate
       ELSE /\ audio_queue' = QueueTaskDone(QueueGet(audio_queue))
            /\ fate' = SetFate({Head(audio_queue.queue).id}, "skipped")
            /\ UNCHANGED callers
    /\ UNCHANGED <<has_imports, device_sr, current_volume, current_speed, tts_request_queue,
                   playback_thread, tts_processor_thread, players, processors,
                   sd_stream, calls, played, fn>>

\* (mutant) stop() without queue.clear()
ClearedNothing(q) == q

\* with tts_request_queue.mutex: queue.clear(); all_tasks_done.notify_all()
\* (unfinished_tasks is not touched)
ClearedRequests(q) == [q EXCEPT !.queue = <<>>]

StopClearRequests(c) ==
    /\ callers[c].pc = "stop_clear_requests"
    /\ tts_request_queue' = ClearedRequests(tts_request_queue)
    /\ fate' = SetFate(QueuedIds(tts_request_queue), "cleared")
    /\ callers' = Goto(c, "stop_processor")
    /\ UNCHANGED <<has_imports, device_sr, current_volume, current_speed, audio_queue,
                   playback_thread, tts_processor_thread, players, processors,
                   sd_stream, calls, played, fn>>

\* if tts_processor_thread and tts_processor_thread.is_alive(): put(None)
StopProcessor(c) ==
    /\ callers[c].pc = "stop_processor"
    /\ IF IsAlive(processors, tts_processor_thread)
       THEN /\ tts_request_queue' = QueuePut(tts_request_queue, StopSentinel)
            /\ callers' = Goto(c, "stop_join")
       ELSE /\ callers' = Goto(c, "stop_returned")
            /\ UNCHANGED tts_request_queue
    /\ UNCHANGED <<has_imports, device_sr, current_volume, current_speed, audio_queue,
                   playback_thread, tts_processor_thread, players, processors,
                   sd_stream, calls, fate, played, fn>>

\* tts_processor_thread.join(timeout=1): the thread has ended
StopJoinEnded(c) ==
    /\ callers[c].pc = "stop_join"
    /\ ~IsAlive(processors, tts_processor_thread)
    /\ callers' = Goto(c, "stop_returned")
    /\ UNCHANGED <<has_imports, device_sr, current_volume, current_speed, pipeline, calls, fn>>

\* (mutant) stop() with join() and no timeout: it returns only once the
\* thread has ended
StopJoinNoTimeout(c) ==
    /\ callers[c].pc = "stop_join"
    /\ ~IsAlive(processors, tts_processor_thread)
    /\ callers' = Goto(c, "stop_returned")
    /\ UNCHANGED <<has_imports, device_sr, current_volume, current_speed, pipeline, calls, fn>>

\* tts_processor_thread.join(timeout=1): the second passes, the thread lives
StopJoinTimeout(c) ==
    /\ callers[c].pc = "stop_join"
    /\ IsAlive(processors, tts_processor_thread)
    /\ callers' = Goto(c, "stop_returned")
    /\ UNCHANGED <<has_imports, device_sr, current_volume, current_speed, pipeline, calls, fn>>

\* ------------------------------------------------------------------------
\* speak, ensure_threads
\* ------------------------------------------------------------------------

\* for chunk in chunks: if chunk.strip(): ...  the chunks from the next one
\* that is put on the queue
RECURSIVE SkipToEnqueue(_)
SkipToEnqueue(chunks) ==
    IF chunks = <<>> \/ ShouldEnqueue(Head(chunks)) THEN chunks
    ELSE SkipToEnqueue(Tail(chunks))

\* the chunks the callers have yet to put on the request queue
RECURSIVE PendingChunks(_)
PendingChunks(cs) ==
    IF cs = {} THEN 0
    ELSE LET c == CHOOSE x \in cs : TRUE
         IN  Len(SelectNonBlank(callers[c].chunks)) + PendingChunks(cs \ {c})

\* a caller thread calls speak(text, block, interrupt, clean): cleaning, and
\* then stop() or the try block
speak(c, text, block, interrupt, clean) ==
    /\ CanCall(c)
    /\ LET cleaned == IF clean THEN Strip(clean_for_speech(text)) ELSE text
           chunks == SpeakChunks(cleaned)
       IN  /\ Len(fate) + PendingChunks(Callers) + Len(SelectNonBlank(chunks))
                  <= MaxChunks
           /\ callers' = [callers EXCEPT ![c] =
                  [pc |-> IF interrupt THEN "stop_sd" ELSE "ensure_playback",
                   in_speak |-> TRUE,
                   block |-> block,
                   chunks |-> SkipToEnqueue(chunks),
                   own |-> {}]]
    /\ calls' = calls + 1
    /\ UNCHANGED <<has_imports, device_sr, current_volume, current_speed, pipeline, fn>>

\* where speak goes once the chunks are on the queue
AfterPut(c) == IF callers[c].block THEN "join_requests" ELSE "speak_returned"

AfterEnsure(c) == IF callers[c].chunks # <<>> THEN "put_chunks" ELSE AfterPut(c)

\* (mutant) ensure_threads without the is_alive test
NeedsStartAlways(threads, handle) == TRUE

\* the condition under which ensure_threads starts a thread
NeedsStart(threads, handle) == handle = None \/ ~IsAlive(threads, handle)

\* if playback_thread is None or not playback_thread.is_alive()
EnsurePlayback(c) ==
    /\ \/ callers[c].pc = "ensure_playback"
       \/ callers[c].pc = "stop_returned" /\ callers[c].in_speak
    /\ callers' = Goto(c, IF NeedsStart(players, playback_thread)
                          THEN "start_playback" ELSE "ensure_processor")
    /\ UNCHANGED <<has_imports, device_sr, current_volume, current_speed, pipeline, calls, fn>>

\* playback_thread = threading.Thread(...); playback_thread.start()
StartPlayback(c) ==
    /\ callers[c].pc = "start_playback"
    /\ players' = Append(players, [pc |-> "get", buf |-> 0, sample_rate |-> 0])
    /\ playback_thread' = Some(Len(players) + 1)
    /\ callers' = Goto(c, "ensure_processor")
    /\ UNCHANGED <<has_imports, device_sr, current_volume, current_speed, tts_request_queue,
                   audio_queue, tts_processor_thread, processors, sd_stream,
                   calls, fate, played, fn>>

\* if tts_processor_thread is None or not tts_processor_thread.is_alive()
EnsureProcessor(c) ==
    /\ callers[c].pc = "ensure_processor"
    /\ callers' = Goto(c, IF NeedsStart(processors, tts_processor_thread)
                          THEN "start_processor" ELSE AfterEnsure(c))
    /\ UNCHANGED <<has_imports, device_sr, current_volume, current_speed, pipeline, calls, fn>>

\* tts_processor_thread = threading.Thread(...); tts_processor_thread.start()
StartProcessor(c) ==
    /\ callers[c].pc = "start_processor"
    /\ processors' = Append(processors, [pc |-> "get", chunk |-> StopSentinel])
    /\ tts_processor_thread' = Some(Len(processors) + 1)
    /\ callers' = Goto(c, AfterEnsure(c))
    /\ UNCHANGED <<has_imports, device_sr, current_volume, current_speed, tts_request_queue,
                   audio_queue, playback_thread, players, sd_stream, calls,
                   fate, played, fn>>

\* Thread.start() raises (no thread can be started): the global names the
\* thread that never ran, the except clause of speak logs and speak returns
StartThreadFails(c) ==
    /\ \/ /\ callers[c].pc = "start_playback"
          /\ players' = Append(players, [pc |-> "unstarted", buf |-> 0, sample_rate |-> 0])
          /\ playback_thread' = Some(Len(players) + 1)
          /\ UNCHANGED <<processors, tts_processor_thread>>
       \/ /\ callers[c].pc = "start_processor"
          /\ processors' = Append(processors,
                                  [pc |-> "unstarted", chunk |-> StopSentinel])
          /\ tts_processor_thread' = Some(Len(processors) + 1)
          /\ UNCHANGED <<players, playback_thread>>
    /\ callers' = Goto(c, "speak_failed")
    /\ UNCHANGED <<has_imports, device_sr, current_volume, current_speed, tts_request_queue,
                   audio_queue, sd_stream, calls, fate, played, fn>>

\* tts_request_queue.put(chunk) for the next chunk that passes the filter
PutChunk(c) ==
    /\ callers[c].pc = "put_chunks"
    /\ LET id == Len(fate) + 1
           rest == SkipToEnqueue(Tail(callers[c].chunks))
       IN  /\ tts_request_queue' =
                  QueuePut(tts_request_queue,
                           [id |-> id, text |-> Head(callers[c].chunks)])
           /\ fate' = Append(fate, "queued")
           /\ callers' = [callers EXCEPT
                  ![c].chunks = rest,
                  ![c].own = @ \cup {id},
                  ![c].pc = IF rest # <<>> THEN "put_chunks" ELSE AfterPut(c)]
    /\ UNCHANGED <<has_imports, device_sr, current_volume, current_speed, audio_queue,
                   playback_thread, tts_processor_thread, players, processors,
                   sd_stream, calls, played, fn>>

\* tts_request_queue.join()
JoinRequests(c) ==
    /\ callers[c].pc = "join_requests"
    /\ JoinReturns(tts_request_queue)
    /\ callers' = Goto(c, "join_audio")
    /\ UNCHANGED <<has_imports, device_sr, current_volume, current_speed, pipeline, calls, fn>>

\* (mutant) speak without audio_queue.join()
JoinAudioNoWait(c) ==
    /\ callers[c].pc = "join_audio"
    /\ callers' = Goto(c, "speak_returned")
    /\ UNCHANGED <<has_imports, device_sr, current_volume, current_speed, pipeline, calls, fn>>

\* audio_queue.join(), after which speak returns
JoinAudio(c) ==
    /\ callers[c].pc = "join_audio"
    /\ JoinReturns(audio_queue)
    /\ callers' = Goto(c, "speak_returned")
    /\ UNCHANGED <<has_imports, device_sr, current_volume, current_speed, pipeline, calls, fn>>

\* the caller goes on after the call has returned or raised
Returned(c) ==
    \/ callers[c].pc \in {"speak_returned", "speak_failed", "speak_raised",
                          "stop_raised"}
    \/ callers[c].pc = "stop_returned" /\ ~callers[c].in_speak

Continue(c) ==
    /\ Returned(c)
    /\ callers' = [callers EXCEPT ![c] = Idle]
    /\ UNCHANGED <<has_imports, device_sr, current_volume, current_speed, pipeline, calls, fn>>

\* ------------------------------------------------------------------------
\* _tts_processor_thread_fn
\* ------------------------------------------------------------------------

SetProcessor(t, pc, chunk) ==
    [processors EXCEPT ![t] = [pc |-> pc, chunk |-> chunk]]

\* chunk = tts_request_queue.get(); None ends the loop (without task_done)
ProcessorGet(t) ==
    /\ processors[t].pc = "get"
    /\ tts_request_queue.queue # <<>>
    /\ LET chunk == Head(tts_request_queue.queue)
       IN  /\ tts_request_queue' = QueueGet(tts_request_queue)
           /\ IF chunk = StopSentinel
              THEN /\ processors' = SetProcessor(t, "break", StopSentinel)
                   /\ UNCHANGED fate
              ELSE /\ processors' = SetProcessor(t, "request", chunk)
                   /\ fate' = SetFate({chunk.id}, "in_request")
    /\ UNCHANGED <<has_imports, device_sr, current_volume, current_speed, audio_queue,
                   playback_thread, tts_processor_thread, players, sd_stream,
                   callers, calls, played, fn>>

\* the thread function returns after the break: the thread is no longer alive
ProcessorExit(t) ==
    /\ processors[t].pc = "break"
    /\ processors' = SetProcessor(t, "dead", StopSentinel)
    /\ UNCHANGED <<has_imports, device_sr, current_volume, current_speed, tts_request_queue,
                   audio_queue, playback_thread, tts_processor_thread, players,
                   sd_stream, callers, calls, fate, played, fn>>

\* tts_request_queue.task_done() for the chunk the thread holds, then the
\* next round of the loop.  A ValueError of task_done is caught by the
\* `except Exception` clause, whose own task_done() raises again and ends
\* the thread.
ProcessorTaskDone(t, what) ==
    /\ IF TaskDoneRaises(tts_request_queue)
       THEN /\ processors' = SetProcessor(t, "dead", StopSentinel)
            /\ UNCHANGED tts_request_queue
       ELSE /\ processors' = SetProcessor(t, "get", StopSentinel)
            /\ tts_request_queue' = QueueTaskDone(tts_request_queue)
    /\ fate' = IF what = "" THEN fate ELSE SetFate({processors[t].chunk.id}, what)

\* (mutant) the ConnectionError handler without task_done()
ProcessorConnectionErrorNoDone(t) ==
    /\ processors[t].pc = "request"
    /\ processors' = SetProcessor(t, "get", StopSentinel)
    /\ fate' = SetFate({processors[t].chunk.id}, "synthesis_failed")
    /\ UNCHANGED <<has_imports, device_sr, current_volume, current_speed, tts_request_queue,
                   audio_queue, playback_thread, tts_processor_thread, players,
                   sd_stream, callers, calls, played, fn>>

\* requests.get raises ConnectionError: log, task_done, continue
ProcessorConnectionError(t) ==
    /\ processors[t].pc = "request"
    /\ ProcessorTaskDone(t, "synthesis_failed")
    /\ UNCHANGED <<has_imports, device_sr, current_volume, current_speed, audio_queue,
                   playback_thread, tts_processor_thread, players, sd_stream,
                   callers, calls, played, fn>>

\* response.status_code != 200: log, task_done, continue
ProcessorBadStatus(t) ==
    /\ processors[t].pc = "request"
    /\ ProcessorTaskDone(t, "synthesis_failed")
    /\ UNCHANGED <<has_imports, device_sr, current_volume, current_speed, audio_queue,
                   playback_thread, tts_processor_thread, players, sd_stream,
                   callers, calls, played, fn>>

\* (mutant) the loop without its `except Exception` clause: the exception
\* ends the thread
ProcessorExceptionEndsThread(t) ==
    /\ processors[t].pc = "request"
    /\ processors' = SetProcessor(t, "dead", StopSentinel)
    /\ fate' = SetFate({processors[t].chunk.id}, "synthesis_failed")
    /\ UNCHANGED <<has_imports, device_sr, current_volume, current_speed, tts_request_queue,
                   audio_queue, playback_thread, tts_processor_thread, players,
                   sd_stream, callers, calls, played, fn>>

\* any other exception (the body is no WAV file, or wavfile/np is undefined
\* because the imports failed): the `except Exception` clause, task_done
ProcessorException(t) ==
    /\ processors[t].pc = "request"
    /\ ProcessorTaskDone(t, "synthesis_failed")
    /\ UNCHANGED <<has_imports, device_sr, current_volume, current_speed, audio_queue,
                   playback_thread, tts_processor_thread, players, sd_stream,
                   callers, calls, played, fn>>

\* get_output_device() raises RuntimeError: log, task_done, continue
ProcessorDeviceError(t) ==
    /\ processors[t].pc = "request"
    /\ has_imports
    /\ ProcessorTaskDone(t, "synthesis_failed")
    /\ UNCHANGED <<has_imports, device_sr, current_volume, current_speed, audio_queue,
                   playback_thread, tts_processor_thread, players, sd_stream,
                   callers, calls, played, fn>>

\* _, device_sr = get_output_device(); the data is resampled to device_sr;
\* audio_queue.put((data, sample_rate))
ProcessorQueueAudio(t) ==
    /\ processors[t].pc = "request"
    /\ has_imports
    /\ audio_queue' = QueuePut(audio_queue, [id |-> processors[t].chunk.id,
                                             sample_rate |-> device_sr])
    /\ processors' = SetProcessor(t, "task_done", processors[t].chunk)
    /\ fate' = SetFate({processors[t].chunk.id}, "audio_queued")
    /\ UNCHANGED <<has_imports, device_sr, current_volume, current_speed, tts_request_queue,
                   playback_thread, tts_processor_thread, players, sd_stream,
                   callers, calls, played, fn>>

\* tts_request_queue.task_done() after the put
ProcessorDone(t) ==
    /\ processors[t].pc = "task_done"
    /\ ProcessorTaskDone(t, "")
    /\ UNCHANGED <<has_imports, device_sr, current_volume, current_speed, audio_queue,
                   playback_thread, tts_processor_thread, players, sd_stream,
                   callers, calls, played, fn>>

\* ------------------------------------------------------------------------
\* _audio_player_thread_fn
\* ------------------------------------------------------------------------

SetPlayer(p, pc, buf) ==
    [players EXCEPT ![p] = [pc |-> pc, buf |-> buf,
                            sample_rate |-> IF buf = 0 THEN 0 ELSE @.sample_rate]]

\* data, sample_rate = audio_queue.get().  Nothing puts the (None, ...)
\* sentinel on the audio queue, so the loop's break is never taken.
PlayerGet(p) ==
    /\ players[p].pc = "get"
    /\ audio_queue.queue # <<>>
    /\ LET buf == Head(audio_queue.queue).id
       IN  /\ audio_queue' = QueueGet(audio_queue)
           /\ players' = [players EXCEPT ![p] =
                  [pc |-> "resolve", buf |-> buf,
                   sample_rate |-> Head(audio_queue.queue).sample_rate]]
           /\ played' = Append(played, buf)
           /\ fate' = SetFate({buf}, "at_player")
    /\ UNCHANGED <<has_imports, device_sr, current_volume, current_speed, tts_request_queue,
                   playback_thread, tts_processor_thread, processors, sd_stream,
                   callers, calls, fn>>

\* get_output_device() raises RuntimeError: log and `continue`; the
\* task_done() at the end of the loop body is not reached
PlayerDeviceError(p) ==
    /\ players[p].pc = "resolve"
    /\ players' = SetPlayer(p, "get", 0)
    /\ fate' = SetFate({players[p].buf}, "play_failed")
    /\ UNCHANGED <<has_imports, device_sr, current_volume, current_speed, tts_request_queue,
                   audio_queue, playback_thread, tts_processor_thread,
                   processors, sd_stream, callers, calls, played, fn>>

\* sd.play raises: the `except Exception` clause logs; no task_done()
PlayerPlayError(p) ==
    /\ players[p].pc = "resolve"
    /\ players' = SetPlayer(p, "get", 0)
    /\ fate' = SetFate({players[p].buf}, "play_failed")
    /\ UNCHANGED <<has_imports, device_sr, current_volume, current_speed, tts_request_queue,
                   audio_queue, playback_thread, tts_processor_thread,
                   processors, sd_stream, callers, calls, played, fn>>

\* sd.play(data, sample_rate, device=output_device): the stream now plays
\* this buffer
PlayerPlay(p) ==
    /\ players[p].pc = "resolve"
    /\ sd_stream' = players[p].buf
    /\ players' = SetPlayer(p, "wait", players[p].buf)
    /\ fate' = SetFate({players[p].buf}, "playing")
    /\ UNCHANGED <<has_imports, device_sr, current_volume, current_speed, tts_request_queue,
                   audio_queue, playback_thread, tts_processor_thread,
                   processors, callers, calls, played, fn>>

\* the device has played the stream's buffer to its end
PlaybackFinishes ==
    /\ sd_stream # 0
    /\ sd_stream' = 0
    /\ UNCHANGED <<has_imports, device_sr, current_volume, current_speed, tts_request_queue,
                   audio_queue, playback_thread, tts_processor_thread, players,
                   processors, callers, calls, fate, played, fn>>

\* sd.wait() returns (no stream is playing), then audio_queue.task_done();
\* its ValueError would be logged by the `except Exception` clause
PlayerDone(p) ==
    /\ players[p].pc = "wait"
    /\ sd_stream = 0
    /\ players' = SetPlayer(p, "get", 0)
    /\ audio_queue' = IF TaskDoneRaises(audio_queue) THEN audio_queue
                      ELSE QueueTaskDone(audio_queue)
    /\ fate' = SetFate({players[p].buf}, "played")
    /\ UNCHANGED <<has_imports, device_sr, current_volume, current_speed, tts_request_queue,
                   playback_thread, tts_processor_thread, processors, sd_stream,
                   callers, calls, played, fn>>

\* ------------------------------------------------------------------------
\* The program: module state after import, and the steps of its threads
\* ------------------------------------------------------------------------

NoFn == [op |-> "none"]

InitGlobals ==
    /\ device_sr = 48000
    /\ current_volume = Float(100)
    /\ current_speed = Float(100)
    /\ tts_request_queue = EmptyQueue
    /\ audio_queue = EmptyQueue
    /\ playback_thread = None
    /\ tts_processor_thread = None
    /\ players = <<>>
    /\ processors = <<>>
    /\ sd_stream = 0
    /\ calls = 0
    /\ fate = <<>>
    /\ played = <<>>

InitPipeline == has_imports \in BOOLEAN /\ InitGlobals

\* caller threads that call concurrently
Init ==
    /\ InitPipeline
    /\ callers = [c \in Callers |-> Idle]
    /\ fn = NoFn

\* one caller thread: the calls come one after the other
InitSeq ==
    /\ InitPipeline
    /\ callers = [c \in Callers |-> IF c = "c1" THEN Idle
                                     ELSE [Idle EXCEPT !.pc = "off"]]
    /\ fn = NoFn

Next ==
    \/ \E c \in Callers, x \in SpeedInputs : set_speed(c, x)
    \/ \E c \in Callers, x \in VolumeInputs : set_volume(c, x)
    \/ \E c \in Callers : stop(c)
    \/ \E c \in Callers, text \in Texts, block, interrupt, clean \in BOOLEAN :
           speak(c, text, block, interrupt, clean)
    \/ \E c \in Callers : StopSd(c)
    \/ \E c \in Callers : StopSdRaises(c)
    \/ \E c \in Callers : clear_queue(c)
    \/ \E c \in Callers : StopClearRequests(c)
    \/ \E c \in Callers : StopProcessor(c)
    \/ \E c \in Callers : StopJoinEnded(c)
    \/ \E c \in Callers : StopJoinTimeout(c)
    \/ \E c \in Callers : EnsurePlayback(c)
    \/ \E c \in Callers : StartPlayback(c)
    \/ \E c \in Callers : EnsureProcessor(c)
    \/ \E c \in Callers : StartProcessor(c)
    \/ \E c \in Callers : StartThreadFails(c)
    \/ \E c \in Callers : PutChunk(c)
    \/ \E c \in Callers : JoinRequests(c)
    \/ \E c \in Callers : JoinAudio(c)
    \/ \E c \in Callers : Continue(c)
    \/ \E t \in DOMAIN processors : ProcessorGet(t)
    \/ \E t \in DOMAIN processors : ProcessorExit(t)
    \/ \E t \in DOMAIN processors : ProcessorConnectionError(t)
    \/ \E t \in DOMAIN processors : ProcessorBadStatus(t)
    \/ \E t \in DOMAIN processors : ProcessorException(t)
    \/ \E t \in DOMAIN processors : ProcessorDeviceError(t)
    \/ \E t \in DOMAIN processors : ProcessorQueueAudio(t)
    \/ \E t \in DOMAIN processors : ProcessorDone(t)
    \/ \E p \in DOMAIN players : PlayerGet(p)
    \/ \E p \in DOMAIN players : PlayerDeviceError(p)
    \/ \E p \in DOMAIN players : PlayerPlayError(p)
    \/ \E p \in DOMAIN players : PlayerPlay(p)
    \/ \E p \in DOMAIN players : PlayerDone(p)
    \/ PlaybackFinishes

Spec == Init /\ [][Next]_vars

\* the sample rates of the output devices
SampleRates == {44100, 48000}

\* the environment: another output device becomes the one that
\* get_output_device() selects (GPTME_TTS_DEVICE is set, the system default
\* changes, a device is plugged in), with another default sample rate
DeviceChanges ==
    /\ device_sr' \in SampleRates \ {device_sr}
    /\ UNCHANGED <<has_imports, current_volume, current_speed, pipeline,
                   callers, calls, fn>>

NextDeviceChange == Next \/ DeviceChanges

\* one caller thread, and an output device that can change at any time
SpecDeviceChange == InitSeq /\ [][NextDeviceChange]_vars

SpecSeq == InitSeq /\ [][Next]_vars

\* the steps of a caller thread inside stop()
StopStep(c) ==
    \/ StopSd(c)
    \/ StopSdRaises(c)
    \/ clear_queue(c)
    \/ StopClearRequests(c)
    \/ StopProcessor(c)
    \/ StopJoinEnded(c)
    \/ StopJoinTimeout(c)

\* the steps of a caller thread inside speak() after cleaning and stop()
SpeakStep(c) ==
    \/ EnsurePlayback(c)
    \/ StartPlayback(c)
    \/ EnsureProcessor(c)
    \/ StartProcessor(c)
    \/ PutChunk(c)
    \/ JoinRequests(c)
    \/ JoinAudio(c)

\* one caller thread that runs whenever it can: a statement of stop() or of
\* speak() that is not waiting is executed in the end.  Nothing is assumed
\* of the worker threads: a request or a playback may last for ever.
SpecSeqFair ==
    /\ SpecSeq
    /\ \A c \in Callers : WF_vars(StopStep(c)) /\ WF_vars(SpeakStep(c))

\* ------------------------------------------------------------------------
\* join_short_sentences called on its own
\* ------------------------------------------------------------------------

\* longest list of sentences given to join_short_sentences, and the largest
\* min_length and max_length
MaxSentences == 3
MaxLength == 4

\* the sentences: the paragraph break, and text as split_text returns it,
\* also with leading whitespace
Sentences ==
    { <<>>, <<"a">>, <<"b">>, <<"a", "b">>, <<" ", "b">> }

RECURSIVE ListsUpTo(_, _)
ListsUpTo(S, n) ==
    IF n = 0 THEN {<<>>}
    ELSE LET shorter == ListsUpTo(S, n - 1)
         IN  shorter \cup {Append(l, x) : l \in shorter, x \in S}

Off == [Idle EXCEPT !.pc = "off"]

InitJoin ==
    /\ has_imports = TRUE
    /\ InitGlobals
    /\ callers = [c \in Callers |-> Off]
    /\ fn \in [op : {"join_short_sentences"},
               state : {"called"},
               sentences : ListsUpTo(Sentences, MaxSentences),
               min_length : 1..MaxLength,
               max_length : {None} \cup {Some(n) : n \in 1..MaxLength},
               result : {<<>>}]

\* the call returns its result
JoinShortSentences ==
    /\ fn.op = "join_short_sentences"
    /\ fn.state = "called"
    /\ fn' = [fn EXCEPT
           !.state = "returned",
           !.result = join_short_sentences(fn.sentences, fn.min_length,
                                           fn.max_length)]
    /\ UNCHANGED <<has_imports, device_sr, current_volume, current_speed, pipeline,
                   callers, calls>>

NextJoin == JoinShortSentences

SpecJoin == InitJoin /\ [][NextJoin]_vars

\* ------------------------------------------------------------------------
\* get_output_device called on its own
\* ------------------------------------------------------------------------

\* str.lower, for the letters of the device names
Lower(ch) ==
    CASE ch = "P" -> "p"
      [] ch = "U" -> "u"
      [] ch = "L" -> "l"
      [] ch = "S" -> "s"
      [] ch = "E" -> "e"
      [] OTHER -> ch

LowerStr(s) == [i \in DOMAIN s |-> Lower(s[i])]

\* sub in s
Contains(s, sub) ==
    \E i \in 0..(Len(s) - Len(sub)) : SubSeq(s, i + 1, i + Len(sub)) = sub

pulse == <<"p", "u", "l", "s", "e">>

\* (mutant) a device counts as an output device whatever its channels
HasOutputChannelsAlways(d) == TRUE

\* d["max_output_channels"] > 0
HasOutputChannels(d) == d.max_output_channels > 0

DecimalDigits == <<"0", "1", "2", "3", "4", "5", "6", "7", "8", "9">>

DigitValue(ch) == (CHOOSE i \in DOMAIN DecimalDigits : DecimalDigits[i] = ch) - 1

RECURSIVE DigitsValue(_, _)
DigitsValue(s, acc) ==
    IF s = <<>> THEN acc
    ELSE DigitsValue(Tail(s), acc * 10 + DigitValue(Head(s)))

AllDigits(s) ==
    s # <<>> /\ \A i \in DOMAIN s : \E k \in DOMAIN DecimalDigits : DecimalDigits[k] = s[i]

\* int(text): surrounding whitespace is ignored, then an optional sign and
\* decimal digits; None stands for ValueError
ParseInt(text) ==
    LET t == Strip(text)
        signed == t # <<>> /\ Head(t) \in {"+", "-"}
        digits == IF signed THEN Tail(t) ELSE t
    IN  IF ~AllDigits(digits) THEN None
        ELSE IF signed /\ Head(t) = "-" THEN Some(0 - DigitsValue(digits, 0))
        ELSE Some(DigitsValue(digits, 0))

\* what get_output_device returns, or the RuntimeError it raises
NoSuitableDevice == [raises |-> TRUE, device |-> None, sample_rate |-> 0]

\* return i, int(sd.query_devices(i)["default_samplerate"]); devices[i] of
\* Python is devices[i + 1] here
Return(devices, i) ==
    [raises |-> FALSE, device |-> Some(i),
     sample_rate |-> devices[i + 1].default_samplerate]

\* next((i for i, d in enumerate(devices) if ...), None), given the places
\* in the list of the devices that pass the test
FirstIndex(places) ==
    IF places = {} THEN None
    ELSE Some((CHOOSE k \in places : \A j \in places : k <= j) - 1)

\* (mutant) GPTME_TTS_DEVICE is not looked at
check_device_override_off(devices, device_override) == None

\* _check_device_override: Some(result) or None
check_device_override(devices, device_override) ==
    IF device_override = None \/ device_override[1] = <<>> THEN None
    ELSE LET device_index == ParseInt(device_override[1])
         IN  IF device_index = None THEN None
             ELSE IF 0 <= device_index[1] /\ device_index[1] < Len(devices)
             THEN IF HasOutputChannels(devices[device_index[1] + 1])
                  THEN Some(Return(devices, device_index[1]))
                  ELSE None
             ELSE None

\* the try block around sd.default.device[1]: Some(result) when the default
\* output device is returned, None when the block is left without a return
\* (no default, no output channels, or sd.query_devices raised, which
\* `except Exception` catches)
TryDefaultOutput(devices, default_output) ==
    IF default_output = None THEN None
    ELSE IF ~(0 <= default_output[1] /\ default_output[1] < Len(devices)) THEN None
    ELSE IF HasOutputChannels(devices[default_output[1] + 1])
    THEN Some(Return(devices, default_output[1]))
    ELSE None

\* output_device = next(... max_output_channels > 0 ...); raise if None
AnyOutputDevice(devices) ==
    LET output_device ==
            FirstIndex({k \in DOMAIN devices : HasOutputChannels(devices[k])})
    IN  IF output_device = None THEN NoSuitableDevice
        ELSE Return(devices, output_device[1])

IsCoreAudioOutput(d) == HasOutputChannels(d) /\ d.hostapi = 2

get_output_device_macos(devices, default_output) ==
    LET default == TryDefaultOutput(devices, default_output)
        coreaudio_device ==
            FirstIndex({k \in DOMAIN devices : IsCoreAudioOutput(devices[k])})
    IN  IF default # None THEN default[1]
        ELSE IF coreaudio_device # None THEN Return(devices, coreaudio_device[1])
        ELSE AnyOutputDevice(devices)

\* the exception that leaves the try block of the system default routing:
\* that of sd.query_devices(kind="output"), or the RuntimeError raised in the
\* block after it
DefaultRoutingRaises(default_info_ok) ==
    IF default_info_ok THEN "RuntimeError" ELSE "PortAudioError"

\* (mutant) `except sd.PortAudioError` in place of `except Exception`
CaughtIfPortAudioError(exception) == exception = "PortAudioError"

\* except Exception as e: log.debug(...)
Caught(exception) == exception \in {"RuntimeError", "PortAudioError"}

\* "pulse" in d["name"].lower() and d["max_output_channels"] > 0
IsPulseOutput(d) == Contains(LowerStr(d.name), pulse) /\ HasOutputChannels(d)

get_output_device_linux(devices, default_info_ok) ==
    LET pulse_device ==
            FirstIndex({k \in DOMAIN devices : IsPulseOutput(devices[k])})
    IN  IF pulse_device # None THEN Return(devices, pulse_device[1])
        ELSE IF ~Caught(DefaultRoutingRaises(default_info_ok))
        THEN NoSuitableDevice
        ELSE AnyOutputDevice(devices)

get_output_device(system, devices, override, default_output, default_info_ok) ==
    LET override_result == check_device_override(devices, override)
        default == TryDefaultOutput(devices, default_output)
    IN  IF override_result # None THEN override_result[1]
        ELSE IF system = "Darwin"
        THEN get_output_device_macos(devices, default_output)
        ELSE IF system = "Linux"
        THEN get_output_device_linux(devices, default_info_ok)
        ELSE IF default # None THEN default[1]
        ELSE AnyOutputDevice(devices)

\* the longest device list
MaxDevices == 2

PulseNames == { <<"P", "u", "l", "s", "e">> }
OtherNames == { <<"h", "w">> }

\* the devices of sd.query_devices()
Devices ==
    [name : PulseNames \cup OtherNames,
     max_output_channels : {0, 2},
     hostapi : {0, 2},
     default_samplerate : SampleRates]

\* the values of GPTME_TTS_DEVICE: unset, empty, indices in and out of
\* range, with whitespace, negative, and no number
Overrides ==
    { None, Some(<<>>), Some(<<"0">>), Some(<<" ", "1">>), Some(<<"7">>),
      Some(<<"-", "1">>), Some(<<"1", "x">>) }

\* the values of sd.default.device[1]: none, a device of the list, no device
DefaultOutputs == { None, Some(0), Some(1), Some(0 - 1) }

InitSelect ==
    /\ has_imports = TRUE
    /\ InitGlobals
    /\ callers = [c \in Callers |-> Off]
    /\ fn \in [op : {"get_output_device"},
               state : {"called"},
               system : {"Darwin", "Linux", "Windows"},
               devices : ListsUpTo(Devices, MaxDevices),
               device_override : Overrides,
               default_output : DefaultOutputs,
               default_info_ok : BOOLEAN,
               result : {NoSuitableDevice}]

\* the call returns or raises
GetOutputDevice ==
    /\ fn.op = "get_output_device"
    /\ fn.state = "called"
    /\ fn' = [fn EXCEPT
           !.state = "returned",
           !.result = get_output_device(fn.system, fn.devices,
                                        fn.device_override, fn.default_output,
                                        fn.default_info_ok)]
    /\ UNCHANGED <<has_imports, device_sr, current_volume, current_speed,
                   pipeline, callers, calls>>

NextSelect == GetOutputDevice

SpecSelect == InitSelect /\ [][NextSelect]_vars

\* ------------------------------------------------------------------------
\* split_text called on its own
\* ------------------------------------------------------------------------

\* the longest text given to split_text
MaxTextLen == 5

\* the characters of the texts: a letter, the end of a sentence, a space and
\* the newline that makes lines and, doubled, paragraphs
TextChars == {"a", ".", " ", "\n"}

InitSplit ==
    /\ has_imports = TRUE
    /\ InitGlobals
    /\ callers = [c \in Callers |-> Off]
    /\ fn \in [op : {"split_text"},
               state : {"called"},
               text : ListsUpTo(TextChars, MaxTextLen),
               result : {<<>>}]

\* the call returns its result
SplitText ==
    /\ fn.op = "split_text"
    /\ fn.state = "called"
    /\ fn' = [fn EXCEPT !.state = "returned", !.result = split_text(fn.text)]
    /\ UNCHANGED <<has_imports, device_sr, current_volume, current_speed,
                   pipeline, callers, calls>>

NextSplit == SplitText

SpecSplit == InitSplit /\ [][NextSplit]_vars

\* ------------------------------------------------------------------------
\* Properties
\* ------------------------------------------------------------------------

Handled(id) ==
    /\ fate[id] \in {"synthesis_failed", "played", "skipped"}
    /\ \A t \in DOMAIN processors : processors[t].chunk.id # id

\* C1: when speak(text, block=True) returns after having put its chunks on
\* the request queue, both queues have no unfinished task, every chunk the
\* call enqueued has been handled by the synthesis worker, and every buffer
\* made from them has finished playing or been skipped.
C1_BlockingSpeakDrained ==
    \A c \in Callers :
        callers[c].pc = "speak_returned" /\ callers[c].block =>
            /\ tts_request_queue.unfinished_tasks = 0
            /\ audio_queue.unfinished_tasks = 0
            /\ sd_stream = 0
            /\ \A id \in callers[c].own : Handled(id)

\* a blocking speak has returned after its chunk was played
C1_Witness ==
    \E c \in Callers :
        /\ callers[c].pc = "speak_returned"
        /\ callers[c].block
        /\ \E id \in callers[c].own : fate[id] = "played"

NoPlaybackFailed == \A id \in DOMAIN fate : fate[id] # "play_failed"

\* C2: a speak(text, block=True) that waits in tts_request_queue.join() or in
\* audio_queue.join() is never left with no thread able to take a step: when
\* every request and every playback has completed, the call returns.
C2_BlockingSpeakReturns ==
    \A c \in Callers :
        callers[c].pc \in {"join_requests", "join_audio"} /\ NoPlaybackFailed
            => ENABLED Next

\* C3: at the step in which stop() returns, the request queue and the audio
\* queue are both empty.
C3_StopLeavesQueuesEmpty ==
    [][\A c \in Callers :
          callers[c].pc # "stop_returned" /\ callers'[c].pc = "stop_returned"
              => tts_request_queue'.queue = <<>> /\ audio_queue'.queue = <<>>]_vars

\* C4: the buffers reach the playback worker in the order in which their
\* chunks were put on the request queue (ids count the puts), so what the
\* playback worker dequeues is a subsequence of what was enqueued.
C4_PlaybackOrder ==
    \A i, j \in DOMAIN played : i < j => played[i] < played[j]

\* two buffers have reached the playback worker
C4_Witness == Len(played) >= 2

\* C5: a playback worker calls sd.play only when no stream is playing: the
\* buffer before has been played to its end or been stopped.
C5_OneStreamAtATime ==
    [][\A p \in DOMAIN players :
          players[p].pc = "resolve" /\ players'[p].pc = "wait"
              => sd_stream = 0]_vars

\* C6: speak never raises to its caller.
C6_SpeakNeverRaises ==
    \A c \in Callers : callers[c].pc # "speak_raised"

VolumeSpeedInRange ==
    /\ ~current_volume.nan /\ 0 <= current_volume.v /\ current_volume.v <= 100
    /\ ~current_speed.nan /\ 50 <= current_speed.v /\ current_speed.v <= 200

\* the number x held to the range lo..hi
Clamped(x, lo, hi) == IF x < lo THEN lo ELSE IF x > hi THEN hi ELSE x

\* C7: in every state the stored volume is a number in [0.0, 1.0] and the
\* stored speed a number in [0.5, 2.0]; set_volume(x) stores x clamped to
\* [0.0, 1.0] and set_speed(x) stores x clamped to [0.5, 2.0]; and no step
\* other than a call of set_volume (set_speed) changes the volume (speed).
C7_VolumeSpeedInRange ==
    /\ []VolumeSpeedInRange
    /\ [][/\ \A x \in VolumeInputs :
                 ~x.nan /\ (\E c \in Callers : set_volume(c, x))
                     => current_volume' = Float(Clamped(x.v, 0, 100))
          /\ \A x \in SpeedInputs :
                 ~x.nan /\ (\E c \in Callers : set_speed(c, x))
                     => current_speed' = Float(Clamped(x.v, 50, 200))
          /\ current_volume' # current_volume
                 => \E c \in Callers, x \in VolumeInputs : set_volume(c, x)
          /\ current_speed' # current_speed
                 => \E c \in Callers, x \in SpeedInputs : set_speed(c, x)]_vars

\* set_volume was given a value below 0.0 and set_speed a value above 2.0 (or
\* NaN), and a chunk has gone through the workers since
C7_Witness ==
    /\ current_volume = Float(0)
    /\ current_speed = Float(200)
    /\ \E id \in DOMAIN fate : fate[id] = "played"

\* C8: every item on the request queue is the stop sentinel or a chunk with
\* text that is not blank, and so is every chunk sent to the server.
C8_NoBlankChunkQueued ==
    /\ \A i \in DOMAIN tts_request_queue.queue :
           LET item == tts_request_queue.queue[i]
           IN  item = StopSentinel \/ Strip(item.text) # <<>>
    /\ \A t \in DOMAIN processors :
           processors[t].pc = "request" => Strip(processors[t].chunk.text) # <<>>

\* the chunks on both sides of a paragraph break are on the queue
C8_Witness ==
    /\ Len(tts_request_queue.queue) = 2
    /\ tts_request_queue.queue[2].text = gpt_me

JoinReturned == fn.op = "join_short_sentences" /\ fn.state = "returned"

\* sentences[i..j] joined by one space each, the later ones without their
\* leading whitespace
RECURSIVE Merged(_, _, _)
Merged(sentences, i, j) ==
    IF i = j THEN sentences[i]
    ELSE Merged(sentences, i, j - 1) \o <<" ">> \o LStrip(sentences[j])

\* the first sentence of the group that sentence i is in, when cut[k] says
\* that a group ends with sentence k
RECURSIVE GroupStart(_, _)
GroupStart(cut, i) ==
    IF i = 1 \/ cut[i - 1] THEN i ELSE GroupStart(cut, i - 1)

\* one chunk for each group, in order
RECURSIVE GroupsFrom(_, _, _)
GroupsFrom(sentences, cut, i) ==
    IF i > Len(sentences) THEN <<>>
    ELSE LET j == CHOOSE k \in i..Len(sentences) :
                      /\ k = Len(sentences) \/ cut[k]
                      /\ \A m \in i..(k - 1) : ~cut[m]
         IN  <<Merged(sentences, i, j)>> \o GroupsFrom(sentences, cut, j + 1)

\* cut is the greedy grouping of the sentences under the limit: a group goes
\* on with the next sentence exactly when neither is empty and the group
\* with that sentence added is no longer than the limit
IsGreedy(sentences, cut, limit) ==
    \A k \in 1..(Len(sentences) - 1) :
        ~cut[k] <=>
            /\ sentences[k] # <<>>
            /\ sentences[k + 1] # <<>>
            /\ Len(Merged(sentences, GroupStart(cut, k), k + 1)) <= limit

\* C9: the result of join_short_sentences is the greedy left-to-right merge
\* under the limit max_length, or min_length when max_length is None: chunks
\* are merged, joined by one space, exactly while the combined length stays
\* within the limit, and no two adjacent non-empty chunks of the result would
\* fit the limit when joined by one space.
C9_GreedyMerge ==
    JoinReturned =>
        LET limit == IF fn.max_length = None THEN fn.min_length
                     ELSE fn.max_length[1]
            n == Len(fn.sentences)
        IN  /\ \E cut \in [1..(n - 1) -> BOOLEAN] :
                   /\ IsGreedy(fn.sentences, cut, limit)
                   /\ fn.result = GroupsFrom(fn.sentences, cut, 1)
            /\ \A k \in 1..(Len(fn.result) - 1) :
                   fn.result[k] # <<>> /\ fn.result[k + 1] # <<>> =>
                       Len(fn.result[k]) + 1 + Len(fn.result[k + 1]) > limit

\* with max_length=None, two sentences were merged and a third did not fit
C9_Witness ==
    /\ JoinReturned
    /\ fn.max_length = None
    /\ fn.sentences = << <<"a">>, <<" ", "b">>, <<"a", "b">> >>
    /\ fn.result = << <<"a", " ", "b">>, <<"a", "b">> >>

CountEmpty(chunks) == Cardinality({i \in DOMAIN chunks : chunks[i] = <<>>})

\* the chunks up to the first empty chunk, and the chunks after it
RECURSIVE UpToBreak(_)
UpToBreak(chunks) ==
    IF chunks = <<>> \/ Head(chunks) = <<>> THEN <<>>
    ELSE <<Head(chunks)>> \o UpToBreak(Tail(chunks))

AfterBreak(chunks) == SubSeq(chunks, Len(UpToBreak(chunks)) + 2, Len(chunks))

\* the characters of the chunks other than whitespace, in order
RECURSIVE Letters(_)
Letters(chunks) ==
    IF chunks = <<>> THEN <<>>
    ELSE SelectSeq(Head(chunks), LAMBDA ch : ~IsSpace(ch)) \o Letters(Tail(chunks))

\* the text between the empty chunks is the same in both lists
RECURSIVE SameParagraphs(_, _)
SameParagraphs(in, out) ==
    /\ Letters(UpToBreak(in)) = Letters(UpToBreak(out))
    /\ (Len(UpToBreak(in)) = Len(in)) = (Len(UpToBreak(out)) = Len(out))
    /\ Len(UpToBreak(in)) < Len(in) /\ Len(UpToBreak(out)) < Len(out)
           => SameParagraphs(AfterBreak(in), AfterBreak(out))

\* C10: the result of join_short_sentences has as many empty chunks as its
\* input, and between the same two empty chunks the text of the result is
\* the text of the input, in the same order.
C10_BreaksPreserved ==
    JoinReturned =>
        /\ CountEmpty(fn.result) = CountEmpty(fn.sentences)
        /\ SameParagraphs(fn.sentences, fn.result)

\* a paragraph break stood between two sentences that fit the limit together
C10_Witness ==
    /\ JoinReturned
    /\ fn.sentences = << <<"a">>, <<>>, <<"b">> >>
    /\ fn.max_length = Some(4)
    /\ fn.result = fn.sentences

\* the playback workers that hold a buffer they have dequeued
PlayersBusy == {p \in DOMAIN players : players[p].pc \in {"resolve", "wait"}}

\* C12: every buffer the playback worker dequeues is marked done on the audio
\* queue exactly once, whatever becomes of it: the unfinished-task count of
\* the audio queue is the number of buffers on the queue plus the number of
\* buffers the playback workers hold, and so is 0 once every buffer has been
\* dequeued and handled.
C12_AudioQueueAccounting ==
    audio_queue.unfinished_tasks =
        Len(audio_queue.queue) + Cardinality(PlayersBusy)

\* the synthesis worker t holds a chunk it has dequeued
HoldsChunk(t) == processors[t].pc \in {"request", "task_done"}

ProcessorsBusy == {t \in DOMAIN processors : HoldsChunk(t)}

\* C13: every chunk the synthesis worker dequeues is marked done on the
\* request queue exactly once, on every path: the step in which a worker
\* lets go of its chunk lowers the unfinished-task count by one, no other
\* step lowers it, and the count is never too low for the task_done() of the
\* chunks the workers hold.
C13_ChunkMarkedDoneOnce ==
    /\ [](tts_request_queue.unfinished_tasks >= Cardinality(ProcessorsBusy))
    /\ [][/\ \A t \in DOMAIN processors :
                 HoldsChunk(t) /\ processors'[t].pc \notin {"request", "task_done"}
                     => tts_request_queue'.unfinished_tasks =
                            tts_request_queue.unfinished_tasks - 1
          /\ tts_request_queue'.unfinished_tasks
                 < tts_request_queue.unfinished_tasks
                     => \E t \in DOMAIN processors :
                            /\ HoldsChunk(t)
                            /\ processors'[t].pc \notin {"request", "task_done"}]_vars

\* one chunk failed in synthesis, the next was synthesized, and the request
\* queue has no unfinished task
C13_Witness ==
    /\ Len(fate) = 2
    /\ fate[1] = "synthesis_failed"
    /\ fate[2] = "audio_queued"
    /\ ProcessorsBusy = {}
    /\ tts_request_queue.unfinished_tasks = 0

\* C14: a worker ends only by receiving the stop sentinel: a synthesis worker
\* leaves its loop only at the sentinel and ends only from there, and after a
\* failed synthesis or a failed playback the worker is back at the get() of
\* its queue.
C14_WorkersSurviveFailures ==
    [][/\ \A t \in DOMAIN processors :
              /\ processors[t].pc # "dead" /\ processors'[t].pc = "dead"
                     => processors[t].pc = "break"
              /\ processors[t].pc # "break" /\ processors'[t].pc = "break"
                     => /\ tts_request_queue.queue # <<>>
                        /\ Head(tts_request_queue.queue) = StopSentinel
              /\ HoldsChunk(t)
                 /\ fate'[processors[t].chunk.id] = "synthesis_failed"
                     => processors'[t].pc = "get"
       /\ \A p \in DOMAIN players :
              /\ players[p].pc # "unstarted" => players'[p].pc # "unstarted"
              /\ players'[p].pc \in {"unstarted", "get", "resolve", "wait"}
              /\ players[p].pc = "resolve" /\ fate'[players[p].buf] = "play_failed"
                     => players'[p].pc = "get"]_vars

\* after a failed synthesis the same worker took the next chunk, after the
\* failed playback of that chunk's buffer the playback worker waits for the
\* next buffer, and no sentinel was ever sent
C14_Witness ==
    /\ Len(fate) = 2
    /\ fate[1] = "synthesis_failed"
    /\ fate[2] = "play_failed"
    /\ Len(processors) = 1 /\ processors[1].pc = "get"
    /\ Len(players) = 1 /\ players[1].pc = "get"

\* C15: when speak returns, every chunk on the request queue will be
\* dequeued by a synthesis worker: a worker is running, and no stop sentinel
\* that would end it stands in the queue before the chunk.
C15_QueuedChunksHaveWorker ==
    \A c \in Callers :
        callers[c].pc = "speak_returned" =>
            \A i \in DOMAIN tts_request_queue.queue :
                tts_request_queue.queue[i] # StopSentinel =>
                    /\ \E t \in DOMAIN processors :
                           processors[t].pc \in {"get", "request", "task_done"}
                    /\ \A j \in 1..(i - 1) :
                           tts_request_queue.queue[j] # StopSentinel

Ids(seq) == {seq[i] : i \in DOMAIN seq}

\* C20: a chunk that stop() cleared from the request queue is not on a queue
\* and not with a worker any more, so it is never sent to the server and
\* never reaches the playback worker; a buffer that stop() cleared from the
\* audio queue is not on the queue and not with a playback worker, so it is
\* never played.
C20_ClearedNeverProcessed ==
    \A id \in DOMAIN fate :
        /\ fate[id] = "cleared" =>
               /\ id \notin QueuedIds(tts_request_queue)
               /\ \A t \in DOMAIN processors : processors[t].chunk.id # id
               /\ id \notin QueuedIds(audio_queue)
               /\ id \notin Ids(played)
        /\ fate[id] = "skipped" =>
               /\ id \notin QueuedIds(audio_queue)
               /\ \A p \in DOMAIN players : players[p].buf # id
               /\ sd_stream # id
               /\ id \notin Ids(played)

\* stop() cleared a buffer from the audio queue and a chunk from the request
\* queue, and the worker that lived through it has gone on
C20_Witness ==
    /\ Len(fate) = 2
    /\ fate[1] = "skipped"
    /\ fate[2] = "cleared"
    /\ \A c \in Callers : callers[c].pc \in {"idle", "off"}

\* C16: a buffer is played at the sample rate of the device it is played on:
\* when the playback worker resolves the output device and calls sd.play,
\* the sample rate that came with the buffer is the default sample rate of
\* that device.
C16_PlayedAtDeviceRate ==
    [][\A p \in DOMAIN players :
          players[p].pc = "resolve" /\ players'[p].pc = "wait"
              => players[p].sample_rate = device_sr]_vars

SelectReturned == fn.op = "get_output_device" /\ fn.state = "returned"

\* C11: get_output_device raises its no-output-device error exactly when no
\* device of the list has output channels; the device it returns has output
\* channels, and the sample rate it returns is the default sample rate of
\* that device.
C11_DeviceHasOutput ==
    SelectReturned =>
        LET r == fn.result
            devices == fn.devices
        IN  /\ r.raises <=>
                   \A k \in DOMAIN devices : devices[k].max_output_channels = 0
            /\ ~r.raises =>
                   /\ r.device # None
                   /\ r.device[1] + 1 \in DOMAIN devices
                   /\ devices[r.device[1] + 1].max_output_channels > 0
                   /\ r.sample_rate = devices[r.device[1] + 1].default_samplerate

\* on Linux the list has an output device that is not PulseAudio, behind a
\* device without output channels, and the system default routing was
\* tried: the second device is returned with its sample rate
C11_Witness ==
    /\ SelectReturned
    /\ fn.system = "Linux"
    /\ fn.default_info_ok
    /\ Len(fn.devices) = 2
    /\ fn.devices[1].max_output_channels = 0
    /\ fn.devices[2].name \in OtherNames
    /\ fn.devices[2].default_samplerate = 44100
    /\ fn.result = [raises |-> FALSE, device |-> Some(1), sample_rate |-> 44100]

\* the index that GPTME_TTS_DEVICE names, if it names an output device of
\* the list
ValidOverride(devices, device_override) ==
    /\ device_override # None
    /\ ParseInt(device_override[1]) # None
    /\ ParseInt(device_override[1])[1] + 1 \in DOMAIN devices
    /\ devices[ParseInt(device_override[1])[1] + 1].max_output_channels > 0

\* C17: an override that names an output device of the list is returned on
\* every platform, whatever the platform policy would choose; any other
\* override value gives the result of the same call with no override set.
C17_OverrideFirst ==
    SelectReturned =>
        IF ValidOverride(fn.devices, fn.device_override)
        THEN LET k == ParseInt(fn.device_override[1])[1] + 1
             IN  fn.result = [raises |-> FALSE, device |-> Some(k - 1),
                              sample_rate |-> fn.devices[k].default_samplerate]
        ELSE fn.result = get_output_device(fn.system, fn.devices, None,
                                           fn.default_output, fn.default_info_ok)

\* the override " 1" names the second device while the platform policy
\* (the system default output) would return the first
C17_Witness ==
    /\ SelectReturned
    /\ fn.system = "Darwin"
    /\ fn.device_override = Some(<<" ", "1">>)
    /\ fn.default_output = Some(0)
    /\ Len(fn.devices) = 2
    /\ fn.devices[1].max_output_channels > 0
    /\ fn.result.device = Some(1)

\* the least of a set of places in the device list, 0 if there is none
Least(places) ==
    IF places = {} THEN 0 ELSE CHOOSE k \in places : \A j \in places : k <= j

SplitReturned == fn.op = "split_text" /\ fn.state = "returned"

\* the non-empty paragraphs of the text
Paragraphs(text) == MapStrip(SelectNonBlank(Split(text, <<"\n", "\n">>)))

\* the chunks are the chunks of the first paragraph, then an empty chunk and
\* the chunks of the next, and so on to the last paragraph
RECURSIVE ParagraphsSeparated(_, _)
ParagraphsSeparated(paragraphs, chunks) ==
    IF paragraphs = <<>> THEN chunks = <<>>
    ELSE LET own == split_text(Head(paragraphs))
         IN  /\ UpToBreak(chunks) = own
             /\ IF Len(paragraphs) = 1 THEN Len(chunks) = Len(own)
                ELSE /\ Len(chunks) > Len(own)
                     /\ ParagraphsSeparated(Tail(paragraphs), AfterBreak(chunks))

\* C19: for a text of n >= 1 non-empty paragraphs split_text returns n - 1
\* empty chunks, one between the chunks of each two consecutive paragraphs,
\* and none at the start or the end.
C19_ParagraphsSeparated ==
    SplitReturned /\ Len(Paragraphs(fn.text)) >= 1 =>
        /\ CountEmpty(fn.result) = Len(Paragraphs(fn.text)) - 1
        /\ fn.result # <<>>
        /\ Head(fn.result) # <<>>
        /\ fn.result[Len(fn.result)] # <<>>
        /\ ParagraphsSeparated(Paragraphs(fn.text), fn.result)

\* the worker threads that are alive
AliveThreads(threads) ==
    {t \in DOMAIN threads : threads[t].pc \notin {"unstarted", "dead"}}

\* C21: at any time at most one synthesis worker thread and at most one
\* playback worker thread are alive.
C21_OneWorkerEach ==
    /\ Cardinality(AliveThreads(processors)) <= 1
    /\ Cardinality(AliveThreads(players)) <= 1

\* C22: for the request queue and for the audio queue, the number of
\* unfinished tasks is the number of items in the queue plus the number of
\* items a worker has dequeued and not yet marked done; so it is 0 when the
\* queue is empty and no worker holds an item of it.
C22_QueueAccounting ==
    /\ tts_request_queue.unfinished_tasks =
           Len(tts_request_queue.queue) + Cardinality(ProcessorsBusy)
    /\ audio_queue.unfinished_tasks =
           Len(audio_queue.queue) + Cardinality(PlayersBusy)

\* C23: once stop() has returned to the one caller thread, so that every
\* chunk there is was enqueued before that stop(), no step puts a buffer on
\* the audio queue and no playback worker starts to play a buffer.
C23_CancellationComplete ==
    [][\A c \in Callers :
          callers[c].pc = "stop_returned" =>
              /\ Len(audio_queue'.queue) <= Len(audio_queue.queue)
              /\ \A p \in DOMAIN players :
                     ~(players[p].pc = "resolve" /\ players'[p].pc = "wait")]_vars

\* the caller is inside stop(), on its own or called by speak
InStop(c) ==
    callers[c].pc \in {"stop_sd", "stop_clear_audio", "stop_clear_requests",
                       "stop_processor", "stop_join"}

\* the caller is inside speak(text, block=False), stop() set aside
InSpeakNoBlock(c) ==
    /\ callers[c].in_speak
    /\ ~callers[c].block
    /\ callers[c].pc \in {"stop_returned", "ensure_playback", "start_playback",
                          "ensure_processor", "start_processor", "put_chunks"}

\* stop() has given control back to its caller
StopOver(c) == callers[c].pc \in {"stop_returned", "stop_raised", "speak_raised"}

\* speak() has given control back to its caller
SpeakOver(c) ==
    callers[c].pc \in {"speak_returned", "speak_failed", "speak_raised"}

\* C24: a caller that is inside stop() leaves it in the end, and a caller
\* that is inside speak(text, block=False) leaves it in the end, with no
\* assumption on the workers: the synthesis worker may stay in a request
\* for ever and the playback worker in a playback for ever.
C24_StopAndSpeakReturn ==
    \A c \in Callers :
        /\ InStop(c) ~> StopOver(c)
        /\ InSpeakNoBlock(c) ~> SpeakOver(c)

\* stop() has returned while the synthesis worker is still in a request and
\* the playback worker still waits for the end of a buffer
C24_Witness ==
    \E c \in Callers :
        /\ callers[c].pc = "stop_returned"
        /\ \E t \in DOMAIN processors : processors[t].pc = "request"
        /\ \E p \in DOMAIN players : players[p].pc = "wait"

====
